---- MODULE Spec2Model ----
(***************************************************************************)
(* Chat session store of the desktop assistant (electron/service/chat.ts): *)
(* the per-conversation history log and the operations of ChatService that *)
(* read and rewrite it.                                                    *)
(***************************************************************************)
EXTENDS Integers, Sequences, FiniteSets, TLC

\* ------------------------------------------------------------------ bounds
\* longest user / final assistant content, in characters
MaxContent == 2
\* largest contextLength passed by a caller
MaxContextLength == 3
\* number of ids pub.uuid() hands out in a run
MaxId == 4

\* the conversations (uuid of a context directory)
Ctx == {"c1", "c2"}

\* a falsy regenerate_id (undefined or ""), and findIndex's "not found"
None == 0

VARIABLES
    history,    \* history[uuid]: the array persisted in <uuid>/history.json
    nextId,     \* the next id pub.uuid() returns
    open,       \* open[uuid]: turns saved by save_chat_history, not yet finalised
    lastOp,     \* the last ChatService call and its arguments
    prev,       \* history as it was before the last call
    built,      \* the list the last build_chat_history returned
    rendered,   \* what the last generateObject of getChatInfo gave
    \* the files of the context directories, as text
    configFile,   \* configFile[uuid]: <uuid>/config.json
    historyFile,  \* historyFile[uuid]: <uuid>/history.json
    time,         \* pub.time(), in seconds
    birth,        \* birth[uuid]: the second config.json was created in
    storeOp,      \* the last call on the files and what it returned
    storePrev,    \* the files as they were before the last call
    \* the chat page of the front end
    currentContextId,      \* the conversation on display, 0 for ""
    currentTalkingChatId,  \* the conversation the last request was sent for
    isInChat,              \* an answer is being generated
    activeKnowledge,       \* the knowledge base on display, 0 for ""
    requests,              \* the sendChat calls that have not returned
    nextReq,               \* the number of the next sendChat call
    created,               \* the conversations the server has created
    pendingList,           \* the get_chat_list requests without a response
    contextIdForDel,       \* the conversation marked for deletion, 0 for ""
    removed,               \* the conversations /chat/remove_chat has deleted
    uiOp,                  \* the last step of the page
    \* the install progress polls of the front end
    timer,          \* timer[k]: the setInterval timer of kind k: off, on, cleared
    job,            \* job[k]: the status of the install job on the server
    inflight,       \* inflight[k]: the progress responses on their way
    observed,       \* observed[k]: the statuses the callback has seen
    issued,         \* issued[k]: the progress requests posted so far
    called,         \* called[k]: the calls of the completion callback so far
    issuedAtClear,  \* issued[k] at the moment clearInterval was called
    \* the documents of the knowledge bases and the poll of their list
    docs,                    \* docs[base][d]: the parse status of a document
    docTimer,                \* the timer of ragDocLoop: off, on, cleared
    uploadedTo,              \* the knowledge base of the upload that set the timer
    docParseStatus,          \* documents are being parsed
    activeKnowledgeDocList,  \* the last list /rag/get_rag_doc_list returned
    docInflight,             \* the list responses on their way
    docPolls,                \* the list requests the timer has posted
    \* the life of the desktop program
    stage,       \* boot, preloaded, running (window ready), closed
    run,         \* the number of this run of the program
    runtimes,    \* the runtime processes started by exec that are running
    WindowSize,  \* the module variable of lifecycle.ts
    windowC,     \* pub.C("window"): the saved window configuration
    win          \* the main window: size, position, mode

chatVars == <<history, open, lastOp, prev, built, rendered>>
storeVars == <<configFile, historyFile, time, birth, storeOp, storePrev>>
uiVars == <<currentContextId, currentTalkingChatId, isInChat, activeKnowledge,
            requests, nextReq, created, pendingList, contextIdForDel, removed,
            uiOp>>
pollVars == <<timer, job, inflight, observed, issued, issuedAtClear, called>>
docVars == <<docs, docTimer, uploadedTo, docParseStatus, activeKnowledgeDocList,
             docInflight, docPolls>>
lifeVars == <<stage, run, runtimes, WindowSize, windowC, win>>
vars == <<history, nextId, open, lastOp, prev, built, rendered,
          configFile, historyFile, time, birth, storeOp, storePrev,
          currentContextId, currentTalkingChatId, isInChat, activeKnowledge,
          requests, nextReq, created, pendingList, contextIdForDel, removed, uiOp,
          timer, job, inflight, observed, issued, issuedAtClear, called,
          docs, docTimer, uploadedTo, docParseStatus, activeKnowledgeDocList,
          docInflight, docPolls,
          stage, run, runtimes, WindowSize, windowC, win>>

\* what each part of the program leaves alone
exceptChat == <<storeVars, uiVars, pollVars, docVars, lifeVars>>
exceptStore == <<chatVars, uiVars, pollVars, docVars, lifeVars>>
exceptUi == <<nextId, chatVars, storeVars, pollVars, docVars, lifeVars>>
exceptPoll == <<nextId, chatVars, storeVars, uiVars, docVars, lifeVars>>
exceptLife == <<nextId, chatVars, storeVars, uiVars, pollVars, docVars>>
exceptDoc == <<nextId, chatVars, storeVars, uiVars, pollVars, lifeVars>>

\* ------------------------------------------------------------------ values
\* a string of n characters
Text(n) == [i \in 1..n |-> "x"]

\* pub.lang("意外中断"): the localized "unexpectedly interrupted" token
LangInterrupted == <<"i", "n", "t", "r">>

\* ChatHistory, reduced to the fields the store reads
Entry(id, role, content, tokens) ==
    [id |-> id, role |-> role, content |-> content, tokens |-> tokens]

\* Math.round(contextLength * 0.5): halves round up
historyMaxContextLength(contextLength) == (contextLength + 1) \div 2

\* Array.prototype.findIndex on item.id == id; 1-based, None when absent
findIndex(historyList, id) ==
    IF \E i \in 1..Len(historyList) : historyList[i].id = id
    THEN CHOOSE i \in 1..Len(historyList) :
            /\ historyList[i].id = id
            /\ \A j \in 1..(i - 1) : historyList[j].id # id
    ELSE None

\* readJsonFile of history.json: a missing or empty file reads as []
read_history(uuid) == history[uuid]

\* ------------------------------------------------------- save_chat_history
\* the trimming loop of save_chat_history: shift the oldest entry while
\* totalTokens exceeds the budget, subtracting the shifted entry's tokens
RECURSIVE shiftByTokens(_, _, _)
shiftByTokens(historyList, totalTokens, max) ==
    IF totalTokens > max /\ Len(historyList) > 0
    THEN shiftByTokens(Tail(historyList), totalTokens - Head(historyList).tokens, max)
    ELSE historyList

\* variant: the question is pushed on the regeneration path too
save_chat_history_pushAlways(historyList, history_, historyRes, contextLength, regenerate_id) ==
    LET h == [history_ EXCEPT !.tokens = Len(history_.content)]
        res == [historyRes EXCEPT !.content = LangInterrupted]
        index == findIndex(historyList, regenerate_id)
        cut == IF regenerate_id # None /\ index # None
               THEN SubSeq(historyList, 1, index - 1)
               ELSE historyList
    IN  shiftByTokens(cut \o <<h, res>>, h.tokens, historyMaxContextLength(contextLength))

\* variant: the whole log is counted against the budget before trimming
save_chat_history_sumAll(historyList, history_, historyRes, contextLength, regenerate_id) ==
    LET h == [history_ EXCEPT !.tokens = Len(history_.content)]
        res == [historyRes EXCEPT !.content = LangInterrupted]
        index == findIndex(historyList, regenerate_id)
        pushed ==
            IF regenerate_id # None
            THEN (IF index # None THEN SubSeq(historyList, 1, index - 1) ELSE historyList)
            ELSE Append(historyList, h)
        sum[i \in 0..Len(pushed)] == IF i = 0 THEN 0 ELSE sum[i - 1] + pushed[i].tokens
    IN  shiftByTokens(Append(pushed, res), h.tokens + sum[Len(pushed)],
                      historyMaxContextLength(contextLength))

\* variant: historyRes is pushed with the content the caller passed in
save_chat_history_keepContent(historyList, history_, historyRes, contextLength, regenerate_id) ==
    LET h == [history_ EXCEPT !.tokens = Len(history_.content)]
        index == findIndex(historyList, regenerate_id)
        pushed ==
            IF regenerate_id # None
            THEN (IF index # None THEN SubSeq(historyList, 1, index - 1) ELSE historyList)
            ELSE Append(historyList, h)
    IN  shiftByTokens(Append(pushed, historyRes), h.tokens,
                      historyMaxContextLength(contextLength))

\* ChatService.save_chat_history: the list it hands to save_history.
\* history_ already carries the id pub.uuid() gave it.
save_chat_history(historyList, history_, historyRes, contextLength, regenerate_id) ==
    LET h == [history_ EXCEPT !.tokens = Len(history_.content)]
        totalTokens == h.tokens
        max == historyMaxContextLength(contextLength)
        res == [historyRes EXCEPT !.content = LangInterrupted]
        index == findIndex(historyList, regenerate_id)
        pushed ==
            IF regenerate_id # None
            THEN (IF index # None THEN SubSeq(historyList, 1, index - 1) ELSE historyList)
            ELSE Append(historyList, h)
    IN  shiftByTokens(Append(pushed, res), totalTokens, max)

\* --------------------------------------- set_chat_history, delete_chat_history
\* variant: the corrected entry is removed and pushed at the end
set_chat_history_moveToEnd(historyList, id, history_) ==
    IF findIndex(historyList, id) = None THEN historyList
    ELSE Append(SelectSeq(historyList, LAMBDA item : item.id # id), history_)

\* variant: an entry whose id is not in the log is added at the end
set_chat_history_pushMissing(historyList, id, history_) ==
    IF findIndex(historyList, id) = None THEN Append(historyList, history_)
    ELSE [historyList EXCEPT ![findIndex(historyList, id)] = history_]

\* ChatService.set_chat_history: historyList[index] = history. With index -1
\* the assignment makes a property "-1" that JSON.stringify leaves out.
set_chat_history(historyList, id, history_) ==
    LET index == findIndex(historyList, id)
    IN  IF index = None THEN historyList
        ELSE [historyList EXCEPT ![index] = history_]

\* ChatService.delete_chat_history: filter(item => item.id !== id)
delete_chat_history(historyList, id) ==
    SelectSeq(historyList, LAMBDA item : item.id # id)

\* ------------------------------------------------------ build_chat_history
\* the sum of item.content.length over a list
RECURSIVE contentLength(_)
contentLength(list) ==
    IF Len(list) = 0 THEN 0 ELSE Len(Head(list).content) + contentLength(Tail(list))

\* variant: the newest entry is dropped (pop) instead of the oldest (shift)
RECURSIVE shiftByContent_pop(_, _, _)
shiftByContent_pop(contextList, totalTokens, max) ==
    IF totalTokens > max /\ Len(contextList) > 0
    THEN shiftByContent_pop(SubSeq(contextList, 1, Len(contextList) - 1),
             totalTokens - Len(contextList[Len(contextList)].content), max)
    ELSE contextList

\* the trimming loop of build_chat_history: it subtracts content lengths
RECURSIVE shiftByContent(_, _, _)
shiftByContent(contextList, totalTokens, max) ==
    IF totalTokens > max /\ Len(contextList) > 0
    THEN shiftByContent(Tail(contextList), totalTokens - Len(Head(contextList).content), max)
    ELSE contextList

\* the {role, content} projection of the kept entries
roleContent(list) ==
    [i \in 1..Len(list) |-> [role |-> list[i].role, content |-> list[i].content]]

\* variant: only the current content is counted, as save_chat_history does
build_chat_history_currentOnly(contextList, chatContext, contextLength) ==
    Append(roleContent(shiftByContent(contextList, Len(chatContext.content),
                                      historyMaxContextLength(contextLength))),
           chatContext)

\* variant: only the history is counted, the current content is left out
build_chat_history_historyOnly(contextList, chatContext, contextLength) ==
    Append(roleContent(shiftByContent(contextList, contentLength(contextList),
                                      historyMaxContextLength(contextLength))),
           chatContext)

\* ChatService.build_chat_history: the list passed to the model
build_chat_history(contextList, chatContext, contextLength) ==
    LET totalTokens == Len(chatContext.content) + contentLength(contextList)
        kept == shiftByContent(contextList, totalTokens,
                               historyMaxContextLength(contextLength))
    IN  Append(roleContent(kept), chatContext)

\* ------------------------------------------------------------------ actions
\* $t("模型异常，请重新生成"): the "model abnormal, please regenerate" text
LangModelAbnormal == <<"a", "b", "n">>

\* reading a property of undefined
TypeError == [type |-> "TypeError", v |-> <<>>]

\* the loop of generateObject from index i on (1-based); the Map is kept as
\* the sequence of its entries, in the order they were set
RECURSIVE generateObjectFrom(_, _, _)
generateObjectFrom(arr, i, result) ==
    IF i > Len(arr) THEN [type |-> "Map", v |-> result]
    ELSE LET value == IF i + 1 <= Len(arr) THEN arr[i + 1].content
                      ELSE LangModelAbnormal
         IN  IF i + 1 > Len(arr) THEN TypeError
             ELSE generateObjectFrom(arr, i + 2,
                      Append(result, [key |-> arr[i].content, content |-> value,
                                      id |-> arr[i + 1].id]))

generateObject(arr) == generateObjectFrom(arr, 1, <<>>)

NoMap == [type |-> "Map", v |-> <<>>]

NoOp == [op |-> "init", uuid |-> "c1", id |-> None, regenerate_id |-> None,
         userId |-> None, resId |-> None, tokens |-> 0, contextLength |-> 0,
         content |-> <<>>]

ChatInit ==
    /\ history = [c \in Ctx |-> <<>>]
    /\ nextId = 1
    /\ open = [c \in Ctx |-> {}]
    /\ lastOp = NoOp
    /\ prev = history
    /\ built = <<>>
    /\ rendered = NoMap

\* a chat turn starts: the caller saves the question (n characters) and the
\* answer record it will fill in (t characters so far, tokens t)
SaveChatHistory(uuid, n, t, contextLength, regenerate_id) ==
    /\ nextId + 1 <= MaxId
    /\ LET h == Entry(nextId, "user", Text(n), 0)
           res == Entry(nextId + 1, "assistant", Text(t), t)
       IN  /\ history' = [history EXCEPT ![uuid] =
                   save_chat_history(read_history(uuid), h, res, contextLength, regenerate_id)]
           /\ open' = [open EXCEPT ![uuid] =
                   @ \cup {[userId |-> nextId, resId |-> nextId + 1]}]
           /\ lastOp' = [op |-> "save_chat_history", uuid |-> uuid, id |-> None,
                         regenerate_id |-> regenerate_id, userId |-> nextId,
                         resId |-> nextId + 1, tokens |-> t,
                         contextLength |-> contextLength, content |-> Text(n)]
    /\ nextId' = nextId + 2
    /\ prev' = history
    /\ built' = <<>>
    /\ rendered' = NoMap

\* the turn ends (completion, stop or upstream error): the caller corrects
\* the record it saved under turn.resId
SetChatHistory(uuid, turn, n) ==
    /\ turn \in open[uuid]
    /\ history' = [history EXCEPT ![uuid] =
            set_chat_history(read_history(uuid), turn.resId,
                             Entry(turn.resId, "assistant", Text(n), n))]
    /\ open' = [open EXCEPT ![uuid] = @ \ {turn}]
    /\ lastOp' = [NoOp EXCEPT !.op = "set_chat_history", !.uuid = uuid,
                              !.id = turn.resId, !.content = Text(n), !.tokens = n]
    /\ prev' = history
    /\ built' = <<>>
    /\ rendered' = NoMap
    /\ UNCHANGED nextId

DeleteChatHistory(uuid, id) ==
    /\ history' = [history EXCEPT ![uuid] = delete_chat_history(read_history(uuid), id)]
    /\ lastOp' = [NoOp EXCEPT !.op = "delete_chat_history", !.uuid = uuid, !.id = id]
    /\ prev' = history
    /\ built' = <<>>
    /\ rendered' = NoMap
    /\ UNCHANGED <<nextId, open>>

BuildChatHistory(uuid, n, contextLength) ==
    /\ built' = build_chat_history(read_history(uuid),
                                   [role |-> "user", content |-> Text(n)], contextLength)
    /\ lastOp' = [NoOp EXCEPT !.op = "build_chat_history", !.uuid = uuid,
                              !.contextLength = contextLength, !.content = Text(n)]
    /\ prev' = history
    /\ rendered' = NoMap
    /\ UNCHANGED <<history, nextId, open>>

\* getChatInfo: /chat/get_chat_info returns the history, generateObject
\* makes the Map to display of it
GetChatInfo(uuid) ==
    /\ rendered' = generateObject(read_history(uuid))
    /\ lastOp' = [NoOp EXCEPT !.op = "get_chat_info", !.uuid = uuid]
    /\ prev' = history
    /\ built' = <<>>
    /\ UNCHANGED <<history, nextId, open>>

\* the chat log alone: the files stay as they are
Next ==
    \/ \E uuid \in Ctx, n \in 0..MaxContent, t \in {0, MaxContent},
          contextLength \in 0..MaxContextLength, regenerate_id \in 0..(nextId - 1) :
          SaveChatHistory(uuid, n, t, contextLength, regenerate_id) /\ UNCHANGED exceptChat
    \/ \E uuid \in Ctx, n \in 0..MaxContent :
          \E turn \in open[uuid] : SetChatHistory(uuid, turn, n) /\ UNCHANGED exceptChat
    \/ \E uuid \in Ctx, id \in 1..(nextId - 1) :
          DeleteChatHistory(uuid, id) /\ UNCHANGED exceptChat
    \/ \E uuid \in Ctx, n \in 0..MaxContent, contextLength \in 0..MaxContextLength :
          BuildChatHistory(uuid, n, contextLength) /\ UNCHANGED exceptChat
    \/ \E uuid \in Ctx : GetChatInfo(uuid) /\ UNCHANGED exceptChat

\* ------------------------------------------------------------- the files
\* no such file (pub.file_exists is false)
Missing == "ENOENT"

\* a title of n characters, all different
Title(n) == [i \in 1..n |-> i]

\* a bracket or a brace of a JSON text
Punct(c) == [k |-> c, v |-> <<>>]

\* JSON.stringify of an object: its fields in insertion order, in braces
stringifyObject(obj, keys) ==
    <<Punct("{")>> \o [i \in 1..Len(keys) |-> [k |-> keys[i], v |-> obj[keys[i]]]]
                  \o <<Punct("}")>>

\* JSON.stringify of an array: its items, in brackets
stringifyArray(list) ==
    <<Punct("[")>> \o [i \in 1..Len(list) |-> [k |-> "item", v |-> list[i]]]
                  \o <<Punct("]")>>

EmptyArray == [type |-> "array", v |-> <<>>]
SyntaxError == [type |-> "SyntaxError", v |-> <<>>]

\* JSON.parse: an object or an array, or a SyntaxError for a text that does
\* not close what it opened
JSON_parse(text) ==
    LET n == Len(text)
        inner == SubSeq(text, 2, n - 1)
    IN  IF n >= 2 /\ text[1].k = "{" /\ text[n].k = "}"
        THEN [type |-> "object",
              v |-> [k \in {inner[i].k : i \in 1..Len(inner)} |->
                        inner[CHOOSE i \in 1..Len(inner) : inner[i].k = k].v]]
        ELSE IF n >= 2 /\ text[1].k = "[" /\ text[n].k = "]"
        THEN [type |-> "array", v |-> [i \in 1..Len(inner) |-> inner[i].v]]
        ELSE SyntaxError

\* variant: the parse error is not caught
readJsonFile_noCatch(file) ==
    IF file = Missing THEN EmptyArray
    ELSE IF Len(file) = 0 THEN EmptyArray
    ELSE JSON_parse(file)

\* ChatService.readJsonFile
readJsonFile(file) ==
    IF file = Missing THEN EmptyArray
    ELSE IF Len(file) = 0 THEN EmptyArray
    ELSE IF JSON_parse(file) = SyntaxError THEN EmptyArray
    ELSE JSON_parse(file)

\* a value that went through an uncaught exception is the exception
Raised(value) == value.type = "SyntaxError"

\* Object.keys(value).length === 0
NoKeys(value) ==
    IF value.type = "array" THEN Len(value.v) = 0 ELSE DOMAIN value.v = {}

ConfigKeys == <<"model", "title", "parameters", "contextPath", "context_id", "create_time">>

\* the contextConfig of create_chat
contextConfig(model, title, parameters, uuid, now) ==
    [model |-> model, title |-> title, parameters |-> parameters,
     contextPath |-> <<"context", uuid>>, context_id |-> uuid, create_time |-> now]

\* variant: the title is written as given and cut only in the value returned
create_chat_file_untruncated(model, parameters, title, uuid, now) ==
    stringifyObject(contextConfig(model, title, parameters, uuid, now), ConfigKeys)

\* the title create_chat keeps: title.substring(0, 18) when longer than 18
TitleLimit == 18
limitTitle(title) == IF Len(title) > TitleLimit THEN SubSeq(title, 1, TitleLimit) ELSE title

\* ChatService.create_chat: the object it returns
create_chat(model, parameters, title, uuid, now) ==
    contextConfig(model, limitTitle(title), parameters, uuid, now)

\* ChatService.create_chat: the text it writes to config.json
create_chat_file(model, parameters, title, uuid, now) ==
    stringifyObject(create_chat(model, parameters, title, uuid, now), ConfigKeys)

\* ChatService.read_chat
read_chat(uuid) == readJsonFile(configFile[uuid])

\* the keys of a parsed object in the order JSON.stringify writes them:
\* those of a config, in the order they were read
keysOf(obj) == SelectSeq(ConfigKeys, LAMBDA k : k \in DOMAIN obj)

\* ChatService.update_chat_title: the text of config.json after it
update_chat_title(file, title) ==
    LET contextConfigObj == readJsonFile(file)
    IN  IF NoKeys(contextConfigObj) THEN file
        ELSE stringifyObject([contextConfigObj.v EXCEPT !.title = title],
                             keysOf(contextConfigObj.v))

\* ChatService.get_last_chat_history: historyList[historyList.length - 1] || {}
get_last_chat_history(file) ==
    LET historyList == readJsonFile(file)
    IN  IF Raised(historyList) THEN historyList
        ELSE IF Len(historyList.v) = 0 THEN [type |-> "object", v |-> <<>>]
        ELSE [type |-> "object", v |-> historyList.v[Len(historyList.v)]]

\* ChatService.build_chat_history on the file
build_chat_history_file(file, chatContext, contextLength) ==
    LET contextList == readJsonFile(file)
    IN  IF Raised(contextList) THEN contextList
        ELSE [type |-> "array",
              v |-> build_chat_history(contextList.v, chatContext, contextLength)]

\* variant: the config is written whatever was read
update_chat_model_noCheck(file, model, parameters) ==
    stringifyObject([model |-> model, parameters |-> parameters], <<"model", "parameters">>)

\* ChatService.update_chat_model: the text of config.json after it
update_chat_model(file, model, parameters) ==
    LET contextConfigObj == readJsonFile(file)
    IN  IF NoKeys(contextConfigObj) THEN file
        ELSE stringifyObject([contextConfigObj.v EXCEPT !.model = model,
                                                         !.parameters = parameters],
                             keysOf(contextConfigObj.v))

\* get_chat_list: a config without create_time gets the birth time of its
\* file in seconds, or 0 when pub.stat returns nothing
withCreateTime(obj, file, birthtime) ==
    IF "create_time" \in DOMAIN obj THEN obj
    ELSE [k \in DOMAIN obj \cup {"create_time"} |->
            IF k = "create_time" THEN (IF file = Missing THEN 0 ELSE birthtime)
            ELSE obj[k]]

\* get_chat_list: the loop over the context directories
RECURSIVE contextList(_, _, _)
contextList(dirs, files, births) ==
    IF Len(dirs) = 0 THEN <<>>
    ELSE LET contextConfigObj == readJsonFile(files[Head(dirs)])
         IN  IF NoKeys(contextConfigObj) THEN contextList(Tail(dirs), files, births)
             ELSE <<withCreateTime(contextConfigObj.v, files[Head(dirs)], births[Head(dirs)])>>
                      \o contextList(Tail(dirs), files, births)

\* Array.prototype.sort with (a, b) => b.create_time - a.create_time: stable
RECURSIVE insertDesc(_, _)
insertDesc(a, sorted) ==
    IF Len(sorted) = 0 THEN <<a>>
    ELSE IF Head(sorted).create_time - a.create_time <= 0 THEN <<a>> \o sorted
    ELSE <<Head(sorted)>> \o insertDesc(a, Tail(sorted))

RECURSIVE sortDesc(_)
sortDesc(list) ==
    IF Len(list) = 0 THEN list ELSE insertDesc(Head(list), sortDesc(Tail(list)))

\* variant: the list is returned in directory order
get_chat_list_unsorted(dirs, files, births) == contextList(dirs, files, births)

\* ChatService.get_chat_list
get_chat_list(dirs, files, births) == sortDesc(contextList(dirs, files, births))

\* the conversations a run can create
MaxChats == 2
Chats == 1..MaxChats
\* the seconds a run can last
MaxTime == 1
\* the longest title a caller passes
MaxTitle == 19
TitleLengths == TitleLimit..MaxTitle
Models == {"m1"}
Parameters == {"7b"}
\* the model and the parameters update_chat_model is called with
NewModels == {"m2"}
NewParameters == {"14b"}
\* the keys of a config written before create_time was recorded
LegacyKeys == SubSeq(ConfigKeys, 1, Len(ConfigKeys) - 1)

NoStoreOp == [op |-> "init", uuid |-> 0, ret |-> EmptyArray, title |-> <<>>,
              model |-> "", parameters |-> ""]

\* pub.readdir of the context directory: the directories that hold a file
contextDirList ==
    SelectSeq([i \in 1..MaxChats |-> i],
              LAMBDA u : configFile[u] # Missing \/ historyFile[u] # Missing)

StoreInit ==
    /\ configFile = [u \in Chats |-> Missing]
    /\ historyFile = [u \in Chats |-> Missing]
    /\ time = 0
    /\ birth = [u \in Chats |-> 0]
    /\ storeOp = NoStoreOp
    /\ storePrev = <<configFile, historyFile>>

CreateChat(model, parameters, n) ==
    /\ nextId \in Chats
    /\ configFile' = [configFile EXCEPT ![nextId] =
            create_chat_file(model, parameters, Title(n), nextId, time)]
    /\ birth' = [birth EXCEPT ![nextId] = time]
    /\ storeOp' = [op |-> "create_chat", uuid |-> nextId,
                   ret |-> [type |-> "object",
                            v |-> create_chat(model, parameters, Title(n), nextId, time)],
                   title |-> Title(n), model |-> model, parameters |-> parameters]
    /\ nextId' = nextId + 1
    /\ storePrev' = <<configFile, historyFile>>
    /\ UNCHANGED <<historyFile, time>>

\* a conversation whose config was written without create_time
LegacyChat(model, parameters, n) ==
    /\ nextId \in Chats
    /\ configFile' = [configFile EXCEPT ![nextId] =
            stringifyObject(create_chat(model, parameters, Title(n), nextId, time),
                            LegacyKeys)]
    /\ birth' = [birth EXCEPT ![nextId] = time]
    /\ storeOp' = [NoStoreOp EXCEPT !.op = "legacy", !.uuid = nextId]
    /\ nextId' = nextId + 1
    /\ storePrev' = <<configFile, historyFile>>
    /\ UNCHANGED <<historyFile, time>>

UpdateChatModel(uuid, model, parameters) ==
    /\ configFile' = [configFile EXCEPT ![uuid] = update_chat_model(@, model, parameters)]
    /\ storeOp' = [op |-> "update_chat_model", uuid |-> uuid,
                   ret |-> [type |-> "boolean", v |-> ~NoKeys(read_chat(uuid))],
                   title |-> <<>>, model |-> model, parameters |-> parameters]
    /\ storePrev' = <<configFile, historyFile>>
    /\ UNCHANGED <<historyFile, time, birth, nextId>>

\* ChatService.delete_chat: the context directory is removed
DeleteChat(uuid) ==
    /\ uuid < nextId
    /\ configFile' = [configFile EXCEPT ![uuid] = Missing]
    /\ historyFile' = [historyFile EXCEPT ![uuid] = Missing]
    /\ birth' = [birth EXCEPT ![uuid] = 0]
    /\ storeOp' = [NoStoreOp EXCEPT !.op = "delete_chat", !.uuid = uuid]
    /\ storePrev' = <<configFile, historyFile>>
    /\ UNCHANGED <<time, nextId>>

GetChatList ==
    /\ storeOp' = [NoStoreOp EXCEPT !.op = "get_chat_list",
            !.ret = [type |-> "array",
                     v |-> get_chat_list(contextDirList, configFile, birth)]]
    /\ storePrev' = <<configFile, historyFile>>
    /\ UNCHANGED <<configFile, historyFile, time, birth, nextId>>

UpdateChatTitle(uuid, n) ==
    /\ configFile' = [configFile EXCEPT ![uuid] = update_chat_title(@, Title(n))]
    /\ storeOp' = [op |-> "update_chat_title", uuid |-> uuid,
                   ret |-> [type |-> "boolean", v |-> ~NoKeys(read_chat(uuid))],
                   title |-> Title(n), model |-> "", parameters |-> ""]
    /\ storePrev' = <<configFile, historyFile>>
    /\ UNCHANGED <<historyFile, time, birth, nextId>>

ReadChat(uuid) ==
    /\ storeOp' = [NoStoreOp EXCEPT !.op = "read_chat", !.uuid = uuid,
                                    !.ret = read_chat(uuid)]
    /\ storePrev' = <<configFile, historyFile>>
    /\ UNCHANGED <<configFile, historyFile, time, birth, nextId>>

ReadHistory(uuid) ==
    /\ storeOp' = [NoStoreOp EXCEPT !.op = "read_history", !.uuid = uuid,
                                    !.ret = readJsonFile(historyFile[uuid])]
    /\ storePrev' = <<configFile, historyFile>>
    /\ UNCHANGED <<configFile, historyFile, time, birth, nextId>>

GetLastChatHistory(uuid) ==
    /\ storeOp' = [NoStoreOp EXCEPT !.op = "get_last_chat_history", !.uuid = uuid,
                                    !.ret = get_last_chat_history(historyFile[uuid])]
    /\ storePrev' = <<configFile, historyFile>>
    /\ UNCHANGED <<configFile, historyFile, time, birth, nextId>>

BuildChatHistoryFile(uuid, n, contextLength) ==
    /\ storeOp' = [NoStoreOp EXCEPT !.op = "build_chat_history", !.uuid = uuid,
            !.ret = build_chat_history_file(historyFile[uuid],
                        [role |-> "user", content |-> Text(n)], contextLength)]
    /\ storePrev' = <<configFile, historyFile>>
    /\ UNCHANGED <<configFile, historyFile, time, birth, nextId>>

\* save_history after a turn of the conversation: one question and its answer
SaveHistoryFile(uuid, n) ==
    /\ configFile[uuid] # Missing
    /\ historyFile[uuid] = Missing
    /\ historyFile' = [historyFile EXCEPT ![uuid] =
            stringifyArray(save_chat_history(readJsonFile(@).v,
                Entry(<<uuid, 1>>, "user", Text(n), 0),
                Entry(<<uuid, 2>>, "assistant", <<>>, 0), 2 * MaxContent, None))]
    /\ storeOp' = [NoStoreOp EXCEPT !.op = "save_chat_history", !.uuid = uuid]
    /\ storePrev' = <<configFile, historyFile>>
    /\ UNCHANGED <<configFile, time, birth, nextId>>

\* the process dies inside pub.write_file: the file keeps the first k
\* characters of what was being written
PartialWrite(uuid, which, k) ==
    /\ IF which = "config"
       THEN /\ configFile[uuid] # Missing /\ k < Len(configFile[uuid])
            /\ configFile' = [configFile EXCEPT ![uuid] = SubSeq(@, 1, k)]
            /\ UNCHANGED historyFile
       ELSE /\ historyFile[uuid] # Missing /\ k < Len(historyFile[uuid])
            /\ historyFile' = [historyFile EXCEPT ![uuid] = SubSeq(@, 1, k)]
            /\ UNCHANGED configFile
    /\ storeOp' = [NoStoreOp EXCEPT !.op = "crash", !.uuid = uuid]
    /\ storePrev' = <<configFile, historyFile>>
    /\ UNCHANGED <<time, birth, nextId>>

\* a second passes
Tick ==
    /\ time < MaxTime
    /\ time' = time + 1
    /\ storeOp' = NoStoreOp
    /\ storePrev' = <<configFile, historyFile>>
    /\ UNCHANGED <<configFile, historyFile, birth, nextId>>

StoreNext ==
    \/ \E model \in Models, parameters \in Parameters, n \in TitleLengths :
          CreateChat(model, parameters, n) /\ UNCHANGED exceptStore
    \/ \E uuid \in Chats, n \in TitleLengths : UpdateChatTitle(uuid, n) /\ UNCHANGED exceptStore
    \/ \E uuid \in Chats : ReadChat(uuid) /\ UNCHANGED exceptStore
    \/ \E uuid \in Chats : ReadHistory(uuid) /\ UNCHANGED exceptStore
    \/ \E uuid \in Chats : GetLastChatHistory(uuid) /\ UNCHANGED exceptStore
    \/ \E uuid \in Chats, contextLength \in {0, MaxContextLength} :
          BuildChatHistoryFile(uuid, MaxContent, contextLength) /\ UNCHANGED exceptStore
    \/ \E uuid \in Chats : SaveHistoryFile(uuid, MaxContent) /\ UNCHANGED exceptStore
    \/ \E uuid \in Chats, which \in {"config", "history"}, k \in {0, 1} :
          PartialWrite(uuid, which, k) /\ UNCHANGED exceptStore
    \/ Tick /\ UNCHANGED exceptStore
    \/ \E model \in Models, parameters \in Parameters :
          LegacyChat(model, parameters, TitleLimit) /\ UNCHANGED exceptStore
    \/ \E uuid \in Chats, model \in NewModels, parameters \in NewParameters :
          UpdateChatModel(uuid, model, parameters) /\ UNCHANGED exceptStore
    \/ \E uuid \in Chats : DeleteChat(uuid) /\ UNCHANGED exceptStore
    \/ GetChatList /\ UNCHANGED exceptStore

\* ----------------------------------------------------------- the chat page
\* the conversations the server can create, the sendChat calls of a run
MaxConv == 2
MaxRequests == 2

\* the empty string of currentContextId and activeKnowledge
Empty == 0

\* the knowledge bases, and the one the page of the conversations opens
MaxBases == 2
Bases == 1..MaxBases
OpenedBases == {MaxBases}

\* a sendChat call: the conversation its /chat/chat request carries, the id
\* /chat/create_chat returned to it (Empty when it created none), where the
\* call stands (awaiting the create, the stream, the last history), the
\* conversation its /chat/get_last_chat_history asks for, and whether the
\* chatHistory on display holds the answer of the call under currentChat
Request(id, phase, ctx, newId) ==
    [id |-> id, phase |-> phase, ctx |-> ctx, newId |-> newId,
     asked |-> Empty, onDisplay |-> TRUE]

NoUiOp == [op |-> "init", ctx |-> Empty, shown |-> Empty, wrote |-> FALSE,
           asked |-> Empty, talking |-> Empty, streams |-> {}]

UiInit ==
    /\ currentContextId = Empty
    /\ currentTalkingChatId = Empty
    /\ isInChat = FALSE
    /\ activeKnowledge = Empty
    /\ requests = {}
    /\ nextReq = 1
    /\ created = 0
    /\ pendingList = 0
    /\ contextIdForDel = Empty
    /\ removed = {}
    /\ uiOp = NoUiOp

\* variant: the id the server returned is not stored
create_chat_response_keep(current, context_id) == current

\* create_chat after its await: currentContextId.value = res.message.context_id
create_chat_response(current, context_id) == context_id

\* get_chat_list after its await: whether the first conversation of the list
\* is selected
get_chat_list_selects(current, forDel, chatList0) ==
    chatList0 # Empty /\ current = forDel

\* get_chat_list after its await: the value of currentContextId
get_chat_list_response(current, forDel, chatList0) ==
    IF get_chat_list_selects(current, forDel, chatList0) THEN chatList0 ELSE current

\* the conversations on the server, and the first of /chat/get_chat_list,
\* which lists the newest first
Existing == (1..created) \ removed
chatList0 ==
    IF Existing = {} THEN Empty
    ELSE CHOOSE c \in Existing : \A d \in Existing : d <= c

\* the guard of onDownloadProgress
progressWrites == currentTalkingChatId = currentContextId

\* chatHistory.value = ... : the Map on display is replaced by another
newChatHistory(reqs) == {[r EXCEPT !.onDisplay = FALSE] : r \in reqs}

\* singleActive("chat", c) and singleActive("knowledge", k)
SingleActive(type, sign) ==
    /\ IF type = "chat"
       THEN activeKnowledge' = Empty /\ currentContextId' = sign
       ELSE currentContextId' = Empty /\ activeKnowledge' = sign
    /\ uiOp' = [NoUiOp EXCEPT !.op = "singleActive"]
    /\ UNCHANGED <<currentTalkingChatId, isInChat, requests, nextReq, created, pendingList,
                   contextIdForDel, removed>>

CreateNewComu ==
    /\ currentContextId' = Empty
    /\ activeKnowledge' = Empty
    /\ requests' = newChatHistory(requests)
    /\ uiOp' = [NoUiOp EXCEPT !.op = "createNewComu"]
    /\ UNCHANGED <<currentTalkingChatId, isInChat, nextReq, created, pendingList,
                   contextIdForDel, removed>>

\* createRag after its await, the server answering 200
CreateRag(ragName) ==
    /\ activeKnowledge' = ragName
    /\ uiOp' = [NoUiOp EXCEPT !.op = "createRag"]
    /\ UNCHANGED <<currentContextId, currentTalkingChatId, isInChat, requests, nextReq,
                   created, pendingList, contextIdForDel, removed>>

\* sendChat up to its first await; the page calls it when no answer is being
\* generated and sets isInChat
SendChat ==
    /\ ~isInChat
    /\ nextReq <= MaxRequests
    /\ isInChat' = TRUE
    /\ nextReq' = nextReq + 1
    /\ IF currentContextId = Empty
       THEN /\ requests' = requests \cup {Request(nextReq, "create", Empty, Empty)}
            /\ UNCHANGED currentTalkingChatId
       ELSE /\ currentTalkingChatId' = currentContextId
            /\ requests' = requests \cup
                    {Request(nextReq, "stream", currentContextId, Empty)}
    /\ uiOp' = [NoUiOp EXCEPT !.op = "sendChat", !.ctx = currentContextId]
    /\ UNCHANGED <<currentContextId, activeKnowledge, created, pendingList,
                   contextIdForDel, removed>>

\* the response of /chat/create_chat: create_chat stores the new id and asks
\* for the list, sendChat goes on to post /chat/chat
CreateChatResponse(r) ==
    /\ r \in requests /\ r.phase = "create"
    /\ created < MaxConv
    /\ created' = created + 1
    /\ currentContextId' = create_chat_response(currentContextId, created + 1)
    /\ pendingList' = pendingList + 1
    /\ currentTalkingChatId' = currentContextId'
    /\ requests' = (requests \ {r}) \cup
            {[r EXCEPT !.phase = "stream", !.ctx = currentContextId', !.newId = created + 1]}
    /\ uiOp' = [NoUiOp EXCEPT !.op = "create_chat", !.ctx = created + 1]
    /\ UNCHANGED <<isInChat, activeKnowledge, nextReq, contextIdForDel, removed>>

\* the response of /chat/get_chat_list; when it selects the first
\* conversation, getChatInfo puts the Map of that conversation on display
GetChatListResponse ==
    /\ pendingList > 0
    /\ pendingList' = pendingList - 1
    /\ currentContextId' =
            get_chat_list_response(currentContextId, contextIdForDel, chatList0)
    /\ requests' =
            IF get_chat_list_selects(currentContextId, contextIdForDel, chatList0)
            THEN newChatHistory(requests) ELSE requests
    /\ uiOp' = [NoUiOp EXCEPT !.op = "get_chat_list"]
    /\ UNCHANGED <<currentTalkingChatId, isInChat, activeKnowledge, nextReq,
                   created, contextIdForDel, removed>>

\* removeChat up to the call of get_chat_list, the server answering 200; the
\* page that asks for the confirmation leaves contextIdForDel as it is or
\* sets it to the conversation to delete
RemoveChat(context_id, forDel) ==
    /\ context_id \in Existing
    /\ removed' = removed \cup {context_id}
    /\ contextIdForDel' = forDel
    /\ pendingList' = pendingList + 1
    /\ uiOp' = [NoUiOp EXCEPT !.op = "removeChat", !.ctx = context_id]
    /\ UNCHANGED <<currentContextId, currentTalkingChatId, isInChat, activeKnowledge,
                   requests, nextReq, created>>

\* onDownloadProgress of the request r: the text received so far is put in
\* the chatHistory on display when the guard allows it
DownloadProgress(r) ==
    /\ r \in requests /\ r.phase = "stream"
    /\ requests' = (requests \ {r}) \cup {[r EXCEPT !.onDisplay = @ \/ progressWrites]}
    /\ uiOp' = [NoUiOp EXCEPT !.op = "progress", !.ctx = r.ctx,
                              !.shown = currentContextId, !.wrote = progressWrites]
    /\ UNCHANGED <<currentContextId, currentTalkingChatId, isInChat, activeKnowledge,
                   nextReq, created, pendingList, contextIdForDel, removed>>

\* the stream of r ends: sendChat posts /chat/get_last_chat_history for the
\* conversation that is current now
StreamEnd(r) ==
    /\ r \in requests /\ r.phase = "stream"
    /\ requests' = (requests \ {r}) \cup
            {[r EXCEPT !.phase = "last", !.asked = currentContextId]}
    /\ uiOp' = [NoUiOp EXCEPT !.op = "streamEnd", !.ctx = r.ctx]
    /\ UNCHANGED <<currentContextId, currentTalkingChatId, isInChat, activeKnowledge,
                   nextReq, created, pendingList, contextIdForDel, removed>>

\* the response of /chat/get_last_chat_history: stat, search_result and id of
\* the entry returned are put on the answer when the chatHistory on display
\* holds it, and sendChat returns
LastChatHistoryResponse(r) ==
    /\ r \in requests /\ r.phase = "last"
    /\ requests' = requests \ {r}
    /\ isInChat' = FALSE
    /\ uiOp' = [NoUiOp EXCEPT !.op = "sendChatEnd", !.ctx = r.ctx,
                              !.asked = r.asked, !.wrote = r.onDisplay]
    /\ UNCHANGED <<currentContextId, currentTalkingChatId, activeKnowledge,
                   nextReq, created, pendingList, contextIdForDel, removed>>

\* stopGenerate: /chat/stop_generate for the conversation on display ends the
\* streams of that conversation, whose sendChat goes on to ask for the last
\* history; getChatInfo then puts a new Map on display
StopGenerate ==
    /\ isInChat
    /\ requests' = newChatHistory(
            {IF r.phase = "stream" /\ r.ctx = currentContextId
             THEN [r EXCEPT !.phase = "last", !.asked = currentContextId]
             ELSE r : r \in requests})
    /\ isInChat' = FALSE
    /\ uiOp' = [NoUiOp EXCEPT !.op = "stopGenerate", !.ctx = currentContextId,
                   !.talking = currentTalkingChatId,
                   !.streams = {r.ctx : r \in {q \in requests : q.phase = "stream"}}]
    /\ UNCHANGED <<currentContextId, currentTalkingChatId, activeKnowledge,
                   nextReq, created, pendingList, contextIdForDel, removed>>

UiNext ==
    \/ \E c \in Existing : SingleActive("chat", c) /\ UNCHANGED exceptUi
    \/ \E k \in OpenedBases : SingleActive("knowledge", k) /\ UNCHANGED exceptUi
    \/ CreateNewComu /\ UNCHANGED exceptUi
    \/ \E k \in OpenedBases : CreateRag(k) /\ UNCHANGED exceptUi
    \/ SendChat /\ UNCHANGED exceptUi
    \/ \E r \in requests : CreateChatResponse(r) /\ UNCHANGED exceptUi
    \/ GetChatListResponse /\ UNCHANGED exceptUi
    \/ \E c \in Existing : \E forDel \in {contextIdForDel, c} :
          RemoveChat(c, forDel) /\ UNCHANGED exceptUi
    \/ \E r \in requests : DownloadProgress(r) /\ UNCHANGED exceptUi
    \/ \E r \in requests : StreamEnd(r) /\ UNCHANGED exceptUi
    \/ \E r \in requests : LastChatHistoryResponse(r) /\ UNCHANGED exceptUi
    \/ StopGenerate /\ UNCHANGED exceptUi

\* ------------------------------------------------- install progress polls
\* the two installs the page polls: a model, the model manager
Kinds == {"model", "manager"}
\* the progress requests one timer can post in a run
MaxPolls == 2

\* the status of an install job: waiting, downloading, installing, done, failed
Done == 3
Failed == -1
Statuses == {0, 1, 2, Done, Failed}

\* the install job on the server moves forward only, to done or to failed
jobSteps(status) == IF status \in {0, 1, 2} THEN {status + 1, Failed} ELSE {}

PollInit ==
    /\ timer = [k \in Kinds |-> "off"]
    /\ job = [k \in Kinds |-> 0]
    /\ inflight = [k \in Kinds |-> {}]
    /\ observed = [k \in Kinds |-> {}]
    /\ issued = [k \in Kinds |-> 0]
    /\ issuedAtClear = [k \in Kinds |-> 0]
    /\ called = [k \in Kinds |-> 0]

\* variant: only a finished install stops the timer
progressCallback_doneOnly(state, status) ==
    IF status = Done THEN "cleared" ELSE state

\* the interval callback after its await: clearInterval(timer) on 3 and on -1
progressCallback(state, status) ==
    IF status = Done \/ status = Failed THEN "cleared" ELSE state

\* callback && callback() in the branch of status 3; installModelManager
\* passes no callback
callbackCalls(k, status) == IF k = "model" /\ status = Done THEN 1 ELSE 0

\* installModel and installModelManager: the install is posted and
\* getModelInstallProgress / getModelManagerInstallProgress sets the timer
InstallModel(k) ==
    /\ timer[k] = "off"
    /\ timer' = [timer EXCEPT ![k] = "on"]
    /\ UNCHANGED <<job, inflight, observed, issued, issuedAtClear, called>>

\* the timer fires: the callback posts a progress request, which the server
\* answers with the status of the job
IntervalTick(k) ==
    /\ timer[k] = "on"
    /\ issued[k] < MaxPolls
    /\ issued' = [issued EXCEPT ![k] = @ + 1]
    /\ inflight' = [inflight EXCEPT ![k] = @ \cup {[n |-> issued[k] + 1, status |-> job[k]]}]
    /\ UNCHANGED <<timer, job, observed, issuedAtClear, called>>

\* a progress response arrives, in any order
ProgressResponse(k, res) ==
    /\ res \in inflight[k]
    /\ inflight' = [inflight EXCEPT ![k] = @ \ {res}]
    /\ observed' = [observed EXCEPT ![k] = @ \cup {res.status}]
    /\ timer' = [timer EXCEPT ![k] = progressCallback(@, res.status)]
    /\ issuedAtClear' = [issuedAtClear EXCEPT ![k] =
            IF timer[k] = "on" /\ timer'[k] = "cleared" THEN issued[k] ELSE @]
    /\ called' = [called EXCEPT ![k] = @ + callbackCalls(k, res.status)]
    /\ UNCHANGED <<job, issued>>

\* the install job advances on the server
JobAdvance(k) ==
    /\ timer[k] # "off"
    /\ \E next \in jobSteps(job[k]) : job' = [job EXCEPT ![k] = next]
    /\ UNCHANGED <<timer, inflight, observed, issued, issuedAtClear, called>>

PollNext ==
    \/ \E k \in Kinds : InstallModel(k) /\ UNCHANGED exceptPoll
    \/ \E k \in Kinds : IntervalTick(k) /\ UNCHANGED exceptPoll
    \/ \E k \in Kinds : \E res \in inflight[k] : ProgressResponse(k, res) /\ UNCHANGED exceptPoll
    \/ \E k \in Kinds : JobAdvance(k) /\ UNCHANGED exceptPoll

\* ------------------------------------------------ the document list poll
\* the documents of a knowledge base, the list requests of a run
MaxDocs == 2
MaxDocPolls == 2

\* the parse status of a document; "none" for a document not uploaded
Terminal == {"parsed", "failed"}

\* the steps of the parse worker on one document
workerSteps(status) ==
    IF status = "pending" THEN {"parsing"}
    ELSE IF status = "parsing" THEN {"parsed", "failed"}
    ELSE {}

\* the list of a knowledge base as /rag/get_rag_doc_list returns it
docList(base) ==
    {[doc |-> d, status |-> docs[base][d]] : d \in {x \in 1..MaxDocs : docs[base][x] # "none"}}

\* item.is_parsed == 1
is_parsed1(item) == item.status = "parsed"

\* activeKnowledgeDocList.value.every(item => item.is_parsed == 1)
parsedStstus(list) == \A item \in list : is_parsed1(item)

DocInit ==
    /\ docs = [b \in Bases |-> [d \in 1..MaxDocs |-> "none"]]
    /\ docTimer = "off"
    /\ uploadedTo = Empty
    /\ docParseStatus = FALSE
    /\ activeKnowledgeDocList = {}
    /\ docInflight = {}
    /\ docPolls = 0

\* doOk of the upload dialog: the document is uploaded to the knowledge base
\* on display, then ragDocLoop sets docParseStatus and the timer
UploadDoc(d) ==
    /\ activeKnowledge # Empty
    /\ docTimer = "off"
    /\ docs[activeKnowledge][d] = "none"
    /\ docs' = [docs EXCEPT ![activeKnowledge][d] = "pending"]
    /\ uploadedTo' = activeKnowledge
    /\ docParseStatus' = TRUE
    /\ docTimer' = "on"
    /\ UNCHANGED <<activeKnowledgeDocList, docInflight, docPolls>>

\* the parse worker takes a document one step further, one document at a time
WorkerStep(base, d) ==
    /\ docs[base][d] = "pending" =>
          \A b \in Bases, x \in 1..MaxDocs : docs[b][x] # "parsing"
    /\ \E next \in workerSteps(docs[base][d]) :
          docs' = [docs EXCEPT ![base][d] = next]
    /\ UNCHANGED <<docTimer, uploadedTo, docParseStatus, activeKnowledgeDocList,
                   docInflight, docPolls>>

\* the timer of ragDocLoop fires: getRagDocList(activeKnowledge.value)
DocLoopTick ==
    /\ docTimer = "on"
    /\ activeKnowledge # Empty
    /\ docPolls < MaxDocPolls
    /\ docPolls' = docPolls + 1
    /\ docInflight' = docInflight \cup
            {[n |-> docPolls + 1, base |-> activeKnowledge, list |-> docList(activeKnowledge)]}
    /\ UNCHANGED <<docs, docTimer, uploadedTo, docParseStatus, activeKnowledgeDocList>>

\* the list arrives: getRagDocList stores it and the callback of ragDocLoop
\* clears the timer when every document of the list is parsed
DocListResponse(res) ==
    /\ res \in docInflight
    /\ docInflight' = docInflight \ {res}
    /\ activeKnowledgeDocList' = res.list
    /\ IF parsedStstus(res.list)
       THEN docTimer' = "cleared" /\ docParseStatus' = FALSE
       ELSE UNCHANGED <<docTimer, docParseStatus>>
    /\ UNCHANGED <<docs, uploadedTo, docPolls>>

DocNext ==
    \/ \E base \in Bases :
          SingleActive("knowledge", base)
              /\ UNCHANGED <<nextId, chatVars, storeVars, pollVars, docVars, lifeVars>>
    \/ \E d \in 1..MaxDocs : UploadDoc(d) /\ UNCHANGED exceptDoc
    \/ \E base \in Bases, d \in 1..MaxDocs : WorkerStep(base, d) /\ UNCHANGED exceptDoc
    \/ DocLoopTick /\ UNCHANGED exceptDoc
    \/ \E res \in docInflight : DocListResponse(res) /\ UNCHANGED exceptDoc

\* ----------------------------------------------- the life of the program
\* the runs of the program, the sizes and positions a window can take
MaxRuns == 2
MaxWindow == 2

\* let WindowSize = { size: 0, position: 0 }
WindowSizeInit == [size |-> 0, position |-> 0]

\* the window as the framework opens it
WinInit == [size |-> 1, position |-> 1, mode |-> "normal"]

LifeInit ==
    /\ stage = "boot"
    /\ run = 1
    /\ runtimes = 0
    /\ WindowSize = WindowSizeInit
    /\ windowC = WindowSizeInit
    /\ win = WinInit

\* preload: ollamaService.create() runs startup.cmd with exec and keeps no
\* handle of the child; the child starts or fails to start
Preload(started) ==
    /\ stage = "boot"
    /\ stage' = "preloaded"
    /\ runtimes' = IF started THEN runtimes + 1 ELSE runtimes
    /\ UNCHANGED <<run, WindowSize, windowC, win>>

\* Lifecycle.windowReady: the saved size and position are restored when set
WindowReady ==
    /\ stage = "preloaded"
    /\ stage' = "running"
    /\ win' = [win EXCEPT
            !.size = IF windowC.size # 0 THEN windowC.size ELSE @,
            !.position = IF windowC.position # 0 THEN windowC.position ELSE @]
    /\ UNCHANGED <<run, runtimes, WindowSize, windowC>>

\* the "resize" handler: the size and the position are recorded unless the
\* window is full screen, maximized or minimized
Resize(size, position, mode) ==
    /\ stage = "running"
    /\ win' = [size |-> size, position |-> position, mode |-> mode]
    /\ WindowSize' = IF mode # "normal" THEN WindowSize
                     ELSE [size |-> size, position |-> position]
    /\ UNCHANGED <<stage, run, runtimes, windowC>>

\* a runtime process ends by itself
RuntimeExit ==
    /\ runtimes > 0
    /\ runtimes' = runtimes - 1
    /\ UNCHANGED <<stage, run, WindowSize, windowC, win>>

\* Lifecycle.beforeClose: pub.C("window", WindowSize), nothing else
BeforeClose ==
    /\ stage = "running"
    /\ stage' = "closed"
    /\ windowC' = WindowSize
    /\ UNCHANGED <<run, runtimes, WindowSize, win>>

\* the program is started again
Restart ==
    /\ stage = "closed"
    /\ run < MaxRuns
    /\ run' = run + 1
    /\ stage' = "boot"
    /\ WindowSize' = WindowSizeInit
    /\ win' = WinInit
    /\ UNCHANGED <<runtimes, windowC>>

LifeNext ==
    \/ \E started \in BOOLEAN : Preload(started) /\ UNCHANGED exceptLife
    \/ WindowReady /\ UNCHANGED exceptLife
    \/ \E size \in 1..MaxWindow, position \in 1..MaxWindow,
          mode \in {"normal", "fullscreen", "maximized", "minimized"} :
          Resize(size, position, mode) /\ UNCHANGED exceptLife
    \/ RuntimeExit /\ UNCHANGED exceptLife
    \/ BeforeClose /\ UNCHANGED exceptLife
    \/ Restart /\ UNCHANGED exceptLife

Init == ChatInit /\ StoreInit /\ UiInit /\ PollInit /\ DocInit /\ LifeInit

Spec == Init /\ [][Next]_vars

\* the files of the conversations: the chat log stays as it is
SpecStore == Init /\ [][StoreNext]_vars

\* the chat page of the front end
SpecUi == Init /\ [][UiNext]_vars

\* the install progress polls of the front end
SpecPoll == Init /\ [][PollNext]_vars

\* the document list poll of the front end
SpecDoc == Init /\ [][DocNext]_vars

\* the life of the desktop program
SpecLife == Init /\ [][LifeNext]_vars

\* ------------------------------------------------------------------ claims
\* the log the last call worked on, before and after it
Old == prev[lastOp.uuid]
New == history[lastOp.uuid]

IsSuffix(s, list) == \E k \in 0..Len(list) : s = SubSeq(list, k + 1, Len(list))

Saved == lastOp.op = "save_chat_history"
SavedNew == Saved /\ lastOp.regenerate_id = None
\* the last call regenerated from an entry the log held
Regenerated == Saved /\ lastOp.regenerate_id # None
                     /\ findIndex(Old, lastOp.regenerate_id) # None
RegenIndex == findIndex(Old, lastOp.regenerate_id)
Built == lastOp.op = "build_chat_history"

\* the entries the last save_chat_history made
FreshUser == Entry(lastOp.userId, "user", lastOp.content, Len(lastOp.content))
FreshAssistant == Entry(lastOp.resId, "assistant", LangInterrupted, lastOp.tokens)
\* the question of the last save_chat_history fits the budget
Fits == 2 * Len(lastOp.content) <= lastOp.contextLength + 1

\* C1: every persisted history has even length and its roles alternate
\* user, assistant from the first entry on.
TurnParity ==
    \A c \in Ctx :
        /\ Len(history[c]) % 2 = 0
        /\ \A i \in 1..Len(history[c]) :
              history[c][i].role = IF i % 2 = 1 THEN "user" ELSE "assistant"

\* C2: after save_chat_history with a regenerate_id found at index i, the
\* entries before i are all still in the log, unchanged, at their positions.
RegenerationMonotonicity ==
    Regenerated =>
        \A j \in 1..(RegenIndex - 1) : j <= Len(New) /\ New[j] = Old[j]

\* C3 (as stated): after save_chat_history with a regenerate_id found at
\* index i, the log is the old entries before i, then a fresh user entry,
\* then a fresh assistant entry.
RegenerationAppendsPair ==
    Regenerated =>
        /\ Len(New) = RegenIndex + 1
        /\ SubSeq(New, 1, RegenIndex - 1) = SubSeq(Old, 1, RegenIndex - 1)
        /\ New[RegenIndex].role = "user" /\ New[RegenIndex].id = lastOp.userId
        /\ New[RegenIndex + 1].role = "assistant"
        /\ New[RegenIndex + 1].id = lastOp.resId

\* C3 (amended): after save_chat_history with a regenerate_id found at index
\* i, the entry i and all later ones are gone and no user entry is appended:
\* the log is the old entries before i followed by the fresh assistant entry
\* alone when the question fits the budget, and a suffix of that list
\* otherwise.
RegenerationTruncates ==
    Regenerated =>
        LET full == Append(SubSeq(Old, 1, RegenIndex - 1), FreshAssistant)
        IN  /\ IsSuffix(New, full)
            /\ Fits => New = full
            /\ \A j \in 1..Len(New) :
                  New[j].id \notin {lastOp.userId, lastOp.regenerate_id}

RegenerationTruncatesWitness ==
    /\ Regenerated /\ RegenIndex >= 2
    /\ New = Append(SubSeq(Old, 1, RegenIndex - 1), FreshAssistant)

\* C4: regenerating from the final assistant entry of a log [.., user,
\* assistant] keeps the length: the user entry stays as it was and the
\* assistant entry is replaced by the fresh one.
RegenerateLastKeepsLength ==
    (/\ Regenerated
     /\ Len(Old) >= 2
     /\ Old[Len(Old)].id = lastOp.regenerate_id
     /\ Old[Len(Old)].role = "assistant"
     /\ Old[Len(Old) - 1].role = "user")
    => /\ Len(New) = Len(Old)
       /\ New[Len(Old) - 1] = Old[Len(Old) - 1]
       /\ New[Len(Old)] = FreshAssistant

NoEntryWhileInFlight ==
    \A c \in Ctx : \A turn \in open[c] : \A i \in 1..Len(history[c]) :
        history[c][i].id \notin {turn.userId, turn.resId}

\* C6 (amended): the turn is persisted when it starts, not when it
\* completes: right after save_chat_history without regenerate_id the last
\* entry of the log is the turn's assistant entry holding the interrupted
\* token, and set_chat_history on completion overwrites the entry of that id
\* in place, touching no other entry and appending nothing.
PlaceholderWhileInFlight ==
    /\ SavedNew =>
          /\ Len(New) >= 1
          /\ New[Len(New)] = FreshAssistant
          /\ [userId |-> lastOp.userId, resId |-> lastOp.resId] \in open[lastOp.uuid]
    /\ lastOp.op = "set_chat_history" =>
          /\ Len(New) = Len(Old)
          /\ \A j \in 1..Len(Old) :
                IF Old[j].id = lastOp.id
                THEN New[j] = Entry(lastOp.id, "assistant", lastOp.content, lastOp.tokens)
                ELSE New[j] = Old[j]

PlaceholderWhileInFlightWitness ==
    /\ lastOp.op = "set_chat_history"
    /\ \E j \in 1..Len(Old) :
          /\ Old[j].id = lastOp.id /\ Old[j].content = LangInterrupted
          /\ New[j].content = lastOp.content
    /\ \E turn \in open[lastOp.uuid] : \E j \in 1..Len(New) :
          New[j].id = turn.resId /\ New[j].content = LangInterrupted

\* C7: a turn saved by save_chat_history without regenerate_id and never
\* finalised leaves a log that ends with the turn's user entry directly
\* followed by the assistant entry holding the interrupted token.
AbortLeavesValidPair ==
    SavedNew =>
        /\ Len(New) >= 2
        /\ New[Len(New) - 1] = FreshUser
        /\ New[Len(New)] = FreshAssistant

\* C8 (as stated): the content lengths of the list build_chat_history
\* returns sum to at most 0.5 * contextLength + len(current content).
ContextBudget ==
    Built => 2 * contentLength(built) <= lastOp.contextLength + 2 * Len(lastOp.content)

\* C8 (amended): they sum to at most Math.round(0.5 * contextLength) +
\* len(current content), which is half a character more for odd
\* contextLength.
ContextBudgetRounded ==
    Built => 2 * contentLength(built)
                 <= lastOp.contextLength + 1 + 2 * Len(lastOp.content)

ContextBudgetRoundedWitness ==
    /\ Built /\ lastOp.contextLength % 2 = 1 /\ lastOp.content = <<>>
    /\ Len(built) > 1 /\ Len(built) - 1 < Len(New)
    /\ 2 * contentLength(built) = lastOp.contextLength + 1

\* C9: the list build_chat_history returns ends with the current user turn
\* and before it holds a contiguous suffix of the persisted history, in
\* order, also when the current content alone exceeds the budget.
ContextShape ==
    Built =>
        /\ Len(built) >= 1
        /\ built[Len(built)] = [role |-> "user", content |-> lastOp.content]
        /\ Len(built) - 1 <= Len(New)
        /\ SubSeq(built, 1, Len(built) - 1)
              = roleContent(SubSeq(New, Len(New) - Len(built) + 2, Len(New)))

ContextShapeWitness ==
    /\ Built /\ Len(New) >= 3
    /\ 2 * Len(lastOp.content) > lastOp.contextLength + 1
    /\ Len(built) = 1

\* the content lengths of the last k entries of the persisted history
lastContent(k) == contentLength(SubSeq(New, Len(New) - k + 1, Len(New)))

\* C10 (as stated): build_chat_history keeps the longest suffix of the
\* history whose content lengths sum to at most 0.5 * contextLength, the
\* current user turn not counted.
KeepsLongestSuffixWithinHalf ==
    Built =>
        LET kept == Len(built) - 1
        IN  /\ 2 * lastContent(kept) <= lastOp.contextLength
            /\ kept < Len(New) => 2 * lastContent(kept + 1) > lastOp.contextLength

\* C10 (amended): it keeps the longest suffix whose content lengths, added
\* to the length of the current user content, sum to at most
\* Math.round(0.5 * contextLength), and nothing of the history when the
\* current content alone exceeds that.
KeepsLongestSuffixWithCurrent ==
    Built =>
        LET kept == Len(built) - 1
            fits(k) == 2 * (lastContent(k) + Len(lastOp.content))
                           <= lastOp.contextLength + 1
        IN  /\ kept \in 0..Len(New)
            /\ kept > 0 => fits(kept)
            /\ kept < Len(New) => ~fits(kept + 1)

KeepsLongestSuffixWithCurrentWitness ==
    /\ Built /\ Len(built) > 1 /\ Len(built) - 1 < Len(New)
    /\ 2 * contentLength(New) <= lastOp.contextLength

\* C11: entries that are in the log before and after a call keep their
\* relative order, and the entries save_chat_history appends come after
\* every entry that was there before.
TurnOrdering ==
    lastOp.op \in {"save_chat_history", "set_chat_history", "delete_chat_history"} =>
        /\ \A i, j \in 1..Len(Old) : \A i2, j2 \in 1..Len(New) :
              (i < j /\ New[i2].id = Old[i].id /\ New[j2].id = Old[j].id) => i2 < j2
        /\ Saved =>
              \A k, m \in 1..Len(New) :
                  (/\ New[k].id \in {lastOp.userId, lastOp.resId}
                   /\ \E i \in 1..Len(Old) : Old[i].id = New[m].id) => m < k

TurnOrderingWitness ==
    /\ lastOp.op = "set_chat_history"
    /\ Len(Old) >= 3
    /\ \E j \in 1..(Len(Old) - 1) : Old[j].id = lastOp.id /\ New[j].id = lastOp.id

\* ------------------------------------------------- claims about the files
StoredConfig(uuid) == read_chat(uuid)
HasConfig(uuid) == ~NoKeys(StoredConfig(uuid)) /\ "title" \in DOMAIN StoredConfig(uuid).v

\* C12: the title stored for a conversation is never longer than 18
\* characters, whatever create_chat and update_chat_title calls were made.
TitleWithinLimit ==
    \A uuid \in Chats : HasConfig(uuid) => Len(StoredConfig(uuid).v.title) <= TitleLimit

Unreadable(file) ==
    IF file = Missing THEN TRUE
    ELSE IF Len(file) = 0 THEN TRUE
    ELSE JSON_parse(file) = SyntaxError

\* C14: read_chat, read_history, get_last_chat_history and
\* build_chat_history on a missing, empty or invalid file return the empty
\* value (an empty array, an empty object, the current message alone), raise
\* nothing and leave the files as they were.
UnreadableReadsEmpty ==
    /\ (storeOp.op = "read_chat" /\ Unreadable(configFile[storeOp.uuid])) =>
          storeOp.ret = EmptyArray /\ <<configFile, historyFile>> = storePrev
    /\ (storeOp.op = "read_history" /\ Unreadable(historyFile[storeOp.uuid])) =>
          storeOp.ret = EmptyArray /\ <<configFile, historyFile>> = storePrev
    /\ (storeOp.op = "get_last_chat_history" /\ Unreadable(historyFile[storeOp.uuid])) =>
          /\ storeOp.ret.type = "object" /\ NoKeys(storeOp.ret)
          /\ <<configFile, historyFile>> = storePrev
    /\ (storeOp.op = "build_chat_history" /\ Unreadable(historyFile[storeOp.uuid])) =>
          /\ storeOp.ret.type = "array" /\ Len(storeOp.ret.v) = 1
          /\ storeOp.ret.v[1].role = "user"
          /\ <<configFile, historyFile>> = storePrev

UnreadableReadsEmptyWitness ==
    /\ storeOp.op = "get_last_chat_history"
    /\ historyFile[storeOp.uuid] # Missing
    /\ Len(historyFile[storeOp.uuid]) > 0
    /\ Unreadable(historyFile[storeOp.uuid])

\* ---------------------------------------------- claims about the chat page
Streaming == {r \in requests : r.phase = "stream"}

\* C15: no two /chat/chat requests are in flight for the same context_id.
OneStreamPerContext ==
    \A r1, r2 \in Streaming : r1.ctx = r2.ctx => r1 = r2

\* C16: a progress event of a stream writes its text only while the
\* conversation on display is the one the stream was sent to.
StreamShownInOwnConversation ==
    (uiOp.op = "progress" /\ uiOp.wrote) => uiOp.shown = uiOp.ctx

PollingEndsOnlyInDoneOrFailed ==
    \A k \in Kinds :
        /\ timer[k] = "cleared" <=> (Done \in observed[k] \/ Failed \in observed[k])
        /\ (timer[k] # "off" /\ observed[k] \subseteq {0, 1, 2}) => timer[k] = "on"
        /\ timer[k] = "cleared" => issued[k] = issuedAtClear[k]
        /\ timer[k] = "off" => issued[k] = 0

PollingEndsOnlyInDoneOrFailedWitness ==
    \E k \in Kinds :
        /\ timer[k] = "cleared"
        /\ Failed \in observed[k]
        /\ 1 \in observed[k]
        /\ inflight[k] = {}

\* ---------------------------------------- claims about the document poll
\* C19: the timer ragDocLoop set after an upload is cleared, and
\* docParseStatus reset, only once every document of the knowledge base that
\* was uploaded to is parsed or failed.
DocLoopStopsWhenUploadParsed ==
    docTimer = "cleared" =>
        /\ ~docParseStatus
        /\ \A d \in 1..MaxDocs : docs[uploadedTo][d] \in Terminal \cup {"none"}

\* ------------------------------------ claims about the life of the program
\* C20: once beforeClose has run, no runtime process the program started is
\* still running.
RuntimeReapedAtShutdown ==
    stage = "closed" => runtimes = 0

\* ------------------------------------------ further claims about the chat log
\* C23: the entries save_chat_history has just persisted, the question and
\* the answer alike, have tokens equal to the length of their content.
TokensEqualContentLength ==
    Saved =>
        \A i \in 1..Len(New) :
            New[i].id \in {lastOp.userId, lastOp.resId} =>
                New[i].tokens = Len(New[i].content)

\* C24: set_chat_history keeps the length of the log and every entry whose
\* id is not the given one, in its position; when no entry has the id the
\* log is what it was.
SetChangesOnlyNamedEntry ==
    lastOp.op = "set_chat_history" =>
        /\ Len(New) = Len(Old)
        /\ \A i \in 1..Len(Old) : Old[i].id # lastOp.id => New[i] = Old[i]
        /\ findIndex(Old, lastOp.id) = None => New = Old

SetChangesOnlyNamedEntryWitness ==
    /\ lastOp.op = "set_chat_history"
    /\ Len(Old) >= 1
    /\ findIndex(Old, lastOp.id) = None

\* ------------------------------------------ further claims about the files
ConfigBefore == readJsonFile(storePrev[1][storeOp.uuid])
ConfigAfter == read_chat(storeOp.uuid)
ChangedKeys ==
    IF storeOp.op = "update_chat_title" THEN {"title"} ELSE {"model", "parameters"}

\* C25: update_chat_title and update_chat_model return false and write
\* nothing when the conversation has no config (never created, deleted,
\* unreadable); on a conversation with a config they return true and change
\* only the title, respectively only model and parameters.
UpdatesNeedExistingChat ==
    storeOp.op \in {"update_chat_title", "update_chat_model"} =>
        /\ historyFile = storePrev[2]
        /\ \A uuid \in Chats \ {storeOp.uuid} : configFile[uuid] = storePrev[1][uuid]
        /\ IF NoKeys(ConfigBefore)
           THEN storeOp.ret.v = FALSE /\ configFile = storePrev[1]
           ELSE /\ storeOp.ret.v = TRUE
                /\ ConfigAfter.type = "object"
                /\ DOMAIN ConfigAfter.v = DOMAIN ConfigBefore.v
                /\ \A k \in DOMAIN ConfigBefore.v \ ChangedKeys :
                      ConfigAfter.v[k] = ConfigBefore.v[k]
                /\ IF storeOp.op = "update_chat_title"
                   THEN ConfigAfter.v.title = storeOp.title
                   ELSE /\ ConfigAfter.v.model = storeOp.model
                        /\ ConfigAfter.v.parameters = storeOp.parameters

UpdatesNeedExistingChatWitness ==
    /\ storeOp.op = "update_chat_model"
    /\ storeOp.uuid < nextId
    /\ storePrev[1][storeOp.uuid] = Missing
    /\ \E uuid \in Chats : HasConfig(uuid)

\* the conversations whose config.json holds a non-empty object
Listed == {uuid \in Chats : ~NoKeys(read_chat(uuid))}

\* C26: get_chat_list returns the conversations whose config holds a
\* non-empty object, each once, by descending create_time, each with the
\* fields of its config and, where the config has no create_time, the birth
\* time of the file.
ChatListExactAndSorted ==
    storeOp.op = "get_chat_list" =>
        LET list == storeOp.ret.v
        IN  /\ Len(list) = Cardinality(Listed)
            /\ {list[i].context_id : i \in 1..Len(list)} = Listed
            /\ \A i, j \in 1..Len(list) :
                  i < j => list[i].create_time >= list[j].create_time
            /\ \A i \in 1..Len(list) :
                  LET stored == read_chat(list[i].context_id).v
                  IN  /\ DOMAIN list[i] = DOMAIN stored \cup {"create_time"}
                      /\ \A k \in DOMAIN stored : list[i][k] = stored[k]
                      /\ "create_time" \notin DOMAIN stored =>
                            list[i].create_time = birth[list[i].context_id]

ChatListExactAndSortedWitness ==
    /\ storeOp.op = "get_chat_list"
    /\ Len(storeOp.ret.v) = 2
    /\ storeOp.ret.v[1].create_time > storeOp.ret.v[2].create_time
    /\ storeOp.ret.v[1].context_id > storeOp.ret.v[2].context_id
    /\ \E uuid \in Listed : "create_time" \notin DOMAIN read_chat(uuid).v

\* ------------------------------------------- further claims about the page
\* C21: the current conversation and the current knowledge base are never
\* both set.
ChatOrKnowledge ==
    currentContextId = Empty \/ activeKnowledge = Empty

\* C22: stopGenerate called while a stream is in flight posts the context_id
\* of that stream, currentTalkingChatId, and isInChat is false afterwards
\* only when no stream of that conversation is left.
StopTargetsStream ==
    (uiOp.op = "stopGenerate" /\ uiOp.streams # {}) =>
        /\ uiOp.ctx = uiOp.talking
        /\ uiOp.ctx \in uiOp.streams
        /\ ~isInChat => \A r \in Streaming : r.ctx # uiOp.talking

\* C28: when sendChat returns, the stat, search_result and id it puts on the
\* answer on display were asked for the conversation the message was sent to.
MetadataOfOwnConversation ==
    (uiOp.op = "sendChatEnd" /\ uiOp.wrote) => uiOp.asked = uiOp.ctx

\* C29: once every get_chat_list has completed, currentContextId is not a
\* conversation removeChat has deleted, and no sendChat posts to one.
SelectionNotDeleted ==
    pendingList = 0 =>
        /\ uiOp.op = "get_chat_list" => currentContextId \notin removed
        /\ uiOp.op = "sendChat" => uiOp.ctx \notin removed

\* C27: the completion callback of an install is called at most once.
CallbackAtMostOnce ==
    \A k \in Kinds : called[k] <= 1

\* ------------------------------------------------ claims about the display
Rendered == lastOp.op = "get_chat_info"

\* C30: generateObject gives a Map for every history, with one entry for each
\* question in order; the answer is the content of the entry after the
\* question, or the "model abnormal" text where the history ends with the
\* question.
RendersEveryHistory ==
    Rendered =>
        LET arr == New
        IN  /\ rendered.type = "Map"
            /\ Len(rendered.v) = (Len(arr) + 1) \div 2
            /\ \A j \in 1..Len(rendered.v) :
                  /\ rendered.v[j].key = arr[2 * j - 1].content
                  /\ rendered.v[j].content =
                        IF 2 * j <= Len(arr) THEN arr[2 * j].content
                        ELSE LangModelAbnormal

====
